---- MODULE Spec2Model ----
(***************************************************************************)
(* QuMIn image-to-metric pipeline (src/src/qumin/pipeline.py):             *)
(* compute_thresholds, _prep, make_masks, _nonzero_mean,                   *)
(* measure_intensity and partition_coefficient, with the driver loop of    *)
(* cmd_quantify (src/src/qumin/cli.py).                                    *)
(*                                                                         *)
(* Every number of the pipeline is a Python/numpy float, i.e. an IEEE 754  *)
(* binary floating-point value.  The model keeps the IEEE semantics        *)
(* (round to nearest, ties to even; gradual underflow; overflow to Inf;    *)
(* NaN and Inf propagation) at a reduced width: Prec significand bits      *)
(* instead of 53, and a narrower exponent range.  Signed zeros are not     *)
(* distinguished: no operation of the pipeline can observe the sign of a   *)
(* zero (the only division by a variable is guarded by b == 0).            *)
(***************************************************************************)
EXTENDS Integers, Sequences, FiniteSets, TLC

\* ------------------------------------------------------------------------
\* Floating-point format
\* ------------------------------------------------------------------------

\* Significand width in bits (53 for the float64 of the program).
Prec == 5

\* A finite float is m * 2^e with |m| < 2^Prec and EMin <= e <= EMax.
EMin == 0 - (Prec + 6)
EMax == Prec + 3

NaN == [cls |-> "nan", m |-> 0, e |-> 0]
PInf == [cls |-> "inf", m |-> 1, e |-> 0]
NInf == [cls |-> "inf", m |-> -1, e |-> 0]
Inf(s) == IF s < 0 THEN NInf ELSE PInf
Fin(m, e) == [cls |-> "fin", m |-> m, e |-> e]
Zero == Fin(0, EMin)

\* What a raised Python exception is modelled as (ZeroDivisionError).
Raised == [cls |-> "exc", m |-> 0, e |-> 0]

Abs(x) == IF x < 0 THEN 0 - x ELSE x
Sgn(x) == IF x < 0 THEN -1 ELSE 1
MinI(a, b) == IF a < b THEN a ELSE b
MaxI(a, b) == IF a < b THEN b ELSE a

RECURSIVE BitLen(_)
BitLen(M) == IF M = 0 THEN 0 ELSE 1 + BitLen(M \div 2)

\* M / d rounded to the nearest integer, ties to the even one.
Nearest(M, d) ==
  LET q == M \div d
      r == M % d
  IN IF 2 * r > d \/ (2 * r = d /\ q % 2 = 1) THEN q + 1 ELSE q

\* The float s * q * 2^e of a rounded significand q <= 2^Prec: a carry out
\* of the significand moves to the next exponent; beyond the largest finite
\* float the result is the infinity of that sign.
Pack(s, q, e) ==
  IF q = 0 THEN Zero
  ELSE IF q = 2^Prec
       THEN (IF e + 1 > EMax THEN Inf(s) ELSE Fin(s * 2^(Prec - 1), e + 1))
  ELSE IF e > EMax THEN Inf(s)
  ELSE Fin(s * q, e)

\* s * M * 2^E at the exponent e1 of its format.
RoundTo(s, M, E, e1) ==
  IF e1 <= E THEN (IF e1 > EMax THEN Inf(s) ELSE Fin(s * M * 2^(E - e1), e1))
  ELSE IF e1 - E > BitLen(M) + 1 THEN Zero
  ELSE Pack(s, Nearest(M, 2^(e1 - E)), e1)

\* The float nearest to s * M * 2^E (M >= 0), ties to the even significand,
\* with gradual underflow at EMin.
Round(s, M, E) ==
  IF M = 0 THEN Zero ELSE RoundTo(s, M, E, MaxI(E + BitLen(M) - Prec, EMin))

\* The float nearest to the integer S times 2^E.
RoundInt(S, E) == Round(Sgn(S), Abs(S), E)

\* float(n) of an integer n.
FromInt(n) == RoundInt(n, 0)

\* The float literal num / 2^sh (a decimal literal is the nearest float).
Dyadic(num, sh) == RoundInt(num, 0 - sh)

IsNaN(a) == a.cls = "nan"
\* np.isfinite
IsFinite(a) == a.cls = "fin"
IsZero(a) == a.cls = "fin" /\ a.m = 0

FNeg(a) ==
  IF a.cls = "nan" THEN NaN
  ELSE IF a.cls = "inf" THEN Inf(0 - a.m)
  ELSE Fin(0 - a.m, a.e)

FAdd(a, b) ==
  IF a.cls = "nan" \/ b.cls = "nan" THEN NaN
  ELSE IF a.cls = "inf" THEN (IF b.cls = "inf" /\ b.m # a.m THEN NaN ELSE a)
  ELSE IF b.cls = "inf" THEN b
  ELSE LET e0 == MinI(a.e, b.e)
       IN RoundInt(a.m * 2^(a.e - e0) + b.m * 2^(b.e - e0), e0)

FSub(a, b) == FAdd(a, FNeg(b))

FMul(a, b) ==
  IF a.cls = "nan" \/ b.cls = "nan" THEN NaN
  ELSE IF a.cls = "inf" \/ b.cls = "inf"
       THEN (IF IsZero(a) \/ IsZero(b) THEN NaN ELSE Inf(Sgn(a.m) * Sgn(b.m)))
  ELSE Round(Sgn(a.m) * Sgn(b.m), Abs(a.m * b.m), a.e + b.e)

\* num / den to one more binary place, the last bit set when the quotient is
\* inexact (so that rounding it rounds the exact quotient).
Sticky(num, den) == 2 * (num \div den) + (IF num % den = 0 THEN 0 ELSE 1)

\* Python's float / float: a zero divisor raises ZeroDivisionError.
FDiv(a, b) ==
  IF IsZero(b) THEN Raised
  ELSE IF a.cls = "nan" \/ b.cls = "nan" THEN NaN
  ELSE IF a.cls = "inf"
       THEN (IF b.cls = "inf" THEN NaN ELSE Inf(a.m * Sgn(b.m)))
  ELSE IF b.cls = "inf" THEN Zero
  ELSE LET sh == 2 * Prec + 1
       IN Round(Sgn(a.m) * Sgn(b.m), Sticky(Abs(a.m) * 2^sh, Abs(b.m)),
                a.e - b.e - sh - 1)

\* numpy's true_divide of a float by a positive element count.
FDivInt(a, n) ==
  IF a.cls # "fin" THEN a
  ELSE LET sh == Prec + BitLen(n) + 1
       IN Round(Sgn(a.m), Sticky(Abs(a.m) * 2^sh, n), a.e - sh - 1)

\* floor(sqrt(N))
ISqrt(N) == CHOOSE r \in 0..(2^((BitLen(N) + 1) \div 2)) : r * r <= N /\ N < (r + 1) * (r + 1)
\* sqrt(N) to one more binary place than its floor r, the last bit set when
\* the root is inexact.
StickyRoot(N, r) == 2 * r + (IF r * r = N THEN 0 ELSE 1)

\* np.sqrt
FSqrt(a) ==
  IF a.cls = "nan" THEN NaN
  ELSE IF a.cls = "inf" THEN (IF a.m > 0 THEN PInf ELSE NaN)
  ELSE IF a.m < 0 THEN NaN
  ELSE IF a.m = 0 THEN Zero
  ELSE LET k == 2 * Prec + 2 + (a.e % 2)
       IN Round(1, StickyRoot(a.m * 2^k, ISqrt(a.m * 2^k)), ((a.e - k) \div 2) - 1)

\* a < b; every comparison with NaN is false.
FLt(a, b) ==
  IF a.cls = "nan" \/ b.cls = "nan" THEN FALSE
  ELSE IF a.cls = "inf" THEN a.m < 0 /\ b # NInf
  ELSE IF b.cls = "inf" THEN b.m > 0
  ELSE LET e0 == MinI(a.e, b.e)
       IN a.m * 2^(a.e - e0) < b.m * 2^(b.e - e0)

FGt(a, b) == FLt(b, a)
\* a == b (NaN differs from itself; values are kept in normal form).
FEq(a, b) == a.cls # "nan" /\ b.cls # "nan" /\ a = b
FLe(a, b) == FLt(a, b) \/ FEq(a, b)
FGe(a, b) == FLe(b, a)

\* ------------------------------------------------------------------------
\* numpy reductions on a flattened (C-order) array, held as a sequence
\* ------------------------------------------------------------------------

RECURSIVE SumFrom(_, _, _)
\* res += a[i] for i, i+1, ..., Len(a)
SumFrom(res, a, i) ==
  IF i > Len(a) THEN res ELSE SumFrom(FAdd(res, a[i]), a, i + 1)

RECURSIVE Lane(_, _, _, _, _)
\* r[j] += a[8*b + j] for the blocks b, b+1, ..., nb-1
Lane(r, a, j, b, nb) ==
  IF b >= nb THEN r ELSE Lane(FAdd(r, a[8 * b + j]), a, j, b + 1, nb)

\* np.add.reduce over a contiguous float array: numpy's pairwise summation,
\* which is a plain left-to-right loop below 8 elements and an 8-lane
\* unrolled loop up to its block size of 128 elements.
npSum(a) ==
  IF Len(a) < 8 THEN SumFrom(Zero, a, 1)
  ELSE LET nb == Len(a) \div 8
           res(r) == FAdd(FAdd(FAdd(r[1], r[2]), FAdd(r[3], r[4])),
                          FAdd(FAdd(r[5], r[6]), FAdd(r[7], r[8])))
       IN SumFrom(res([j \in 1..8 |-> Lane(a[j], a, j, 1, nb)]), a, 8 * nb + 1)

\* ndarray.mean(): the sum divided by the element count.
npMean(a) == FDivInt(npSum(a), Len(a))

\* (a variant: the sample standard deviation, ddof = 1)
npStd_sample(a) ==
  LET x(arrmean) == [i \in 1..Len(a) |-> FSub(a[i], arrmean)]
      xx(d) == [i \in 1..Len(a) |-> FMul(d[i], d[i])]
  IN FSqrt(FDivInt(npSum(xx(x(FDivInt(npSum(a), Len(a))))), MaxI(Len(a) - 1, 1)))

\* ndarray.std() (ddof = 0): sqrt(mean(|a - a.mean()|^2)).
npStd(a) ==
  LET x(arrmean) == [i \in 1..Len(a) |-> FSub(a[i], arrmean)]
      xx(d) == [i \in 1..Len(a) |-> FMul(d[i], d[i])]
  IN FSqrt(FDivInt(npSum(xx(x(FDivInt(npSum(a), Len(a))))), Len(a)))

\* ------------------------------------------------------------------------
\* Arrays
\* ------------------------------------------------------------------------

\* An ndarray: its shape <<rows, columns>> and its elements in C order.
\* Images hold floats, masks hold booleans.
Arr(shape, data) == [shape |-> shape, data |-> data]
Size(a) == Len(a.data)
RowOf(a, i) == (i - 1) \div a.shape[2]
ColOf(a, i) == (i - 1) % a.shape[2]

\* Python's None, where an array or a float is expected.
None == [shape |-> <<0, 0>>, data |-> <<>>]
NoneF == [cls |-> "none", m |-> 0, e |-> 0]

\* (a variant: a >= t)
GreaterOrEqual(a, t) == Arr(a.shape, [i \in 1..Size(a) |-> FGe(a.data[i], t)])
\* a > t, elementwise
Greater(a, t) == Arr(a.shape, [i \in 1..Size(a) |-> FGt(a.data[i], t)])
\* ~a, elementwise
Invert(a) == Arr(a.shape, [i \in 1..Size(a) |-> ~a.data[i]])
\* (a variant: np.logical_or(a, b))
logical_or(a, b) == Arr(a.shape, [i \in 1..Size(a) |-> a.data[i] \/ b.data[i]])
\* np.logical_and(a, b)
logical_and(a, b) == Arr(a.shape, [i \in 1..Size(a) |-> a.data[i] /\ b.data[i]])

\* values[mask]: the elements under the true mask positions, in C order, 1-D.
BoolIndex(a, mask) ==
  LET take(idx) == [k \in 1..Len(idx) |-> a.data[idx[k]]]
  IN take(SelectSeq([i \in 1..Size(a) |-> i], LAMBDA i : mask.data[i]))

\* skimage.morphology.binary_dilation(mask, morphology.square(d)), d odd:
\* an element is true iff some element of the d-by-d window centred on it
\* (inside the array) is true.
binary_dilation(mask, d) ==
  LET h == d \div 2
  IN Arr(mask.shape,
         [i \in 1..Size(mask) |->
            \E j \in 1..Size(mask) :
               /\ mask.data[j]
               /\ Abs(RowOf(mask, i) - RowOf(mask, j)) <= h
               /\ Abs(ColOf(mask, i) - ColOf(mask, j)) <= h])

\* ------------------------------------------------------------------------
\* pipeline.py
\* ------------------------------------------------------------------------

\* Settings() with its defaults: lower_k = 0.25, upper_k = 0.20.
Settings(lower_k, upper_k, blur_sigma, dilate_size) ==
  [lower_k |-> lower_k, upper_k |-> upper_k,
   blur_sigma |-> blur_sigma, dilate_size |-> dilate_size]
DefaultSettings == Settings(Dyadic(1, 2), FDiv(FromInt(1), FromInt(5)), Zero, 0)

\* (a variant: mean - k*std)
compute_thresholds_below(image, lower_k, upper_k) ==
  LET thresholds(std, mean) ==
        <<FSub(mean, FMul(lower_k, std)), FSub(mean, FMul(upper_k, std))>>
  IN thresholds(npStd(image.data), npMean(image.data))

\* population standard deviation and mean of the image, then mean + k*std
compute_thresholds(image, lower_k, upper_k) ==
  LET thresholds(std, mean) ==
        <<FAdd(mean, FMul(lower_k, std)), FAdd(mean, FMul(upper_k, std))>>
  IN thresholds(npStd(image.data), npMean(image.data))

\* The image the thresholds are taken on: gaussian_filter's output when
\* blur_sigma is truthy and positive (filtered: what the filter returned,
\* an array of the same shape), the image itself otherwise.
blur_on(s) == ~IsZero(s.blur_sigma) /\ FGt(s.blur_sigma, Zero)
_prep(image, s, filtered) == IF blur_on(s) THEN filtered ELSE image

\* (a variant: the size is not required to be odd)
dilate_on_any_size(s) == s.dilate_size # 0 /\ s.dilate_size >= 3

\* s.dilate_size and s.dilate_size >= 3 and s.dilate_size % 2 == 1
dilate_on(s) == s.dilate_size # 0 /\ s.dilate_size >= 3 /\ s.dilate_size % 2 = 1

\* the masks of the prepared image img under the thresholds th = (lower, upper)
threshold_masks(img, th, s) ==
  LET dilated(mask) ==
        IF dilate_on(s) THEN binary_dilation(mask, s.dilate_size) ELSE mask
  IN [bg |-> dilated(Greater(img, th[1])),
      agg |-> dilated(Greater(img, th[2])),
      lower |-> th[1], upper |-> th[2]]

\* (a variant: the two thresholds exchanged)
prepared_masks_swapped(img, s) ==
  LET th == compute_thresholds(img, s.lower_k, s.upper_k)
  IN threshold_masks(img, <<th[2], th[1]>>, s)

prepared_masks(img, s) ==
  threshold_masks(img, compute_thresholds(img, s.lower_k, s.upper_k), s)

make_masks(main_channel_img, s, filtered) ==
  prepared_masks(_prep(main_channel_img, s, filtered), s)

\* (a variant: the non-finite samples are not dropped)
_nonzero_mean_unfiltered(values, mask) ==
  LET mean(w) == IF Len(w) = 0 THEN NaN ELSE npMean(w)
  IN mean(IF mask = None THEN values.data ELSE BoolIndex(values, mask))

\* (a variant: an empty selection gives 0)
_nonzero_mean_or_zero(values, mask) ==
  LET v == IF mask = None THEN values.data ELSE BoolIndex(values, mask)
      mean(w) == IF Len(w) = 0 THEN Zero ELSE npMean(w)
  IN mean(SelectSeq(v, IsFinite))

_nonzero_mean(values, mask) ==
  LET v == IF mask = None THEN values.data ELSE BoolIndex(values, mask)
      mean(w) == IF Len(w) = 0 THEN NaN ELSE npMean(w)
  IN mean(SelectSeq(v, IsFinite))

\* (a variant: the background and the aggregate means exchanged)
measure_intensity_exchanged(main_img, red_img, masks) ==
  LET bg == masks.bg
      agg == masks.agg
      unedited == _nonzero_mean(main_img, None)
      bg_mean == _nonzero_mean(main_img, agg)
      agg_mean == _nonzero_mean(main_img, bg)
      red_agg == _nonzero_mean(red_img, agg)
      cytoplasm_mask == logical_and(bg, Invert(agg))
      red_cyto == _nonzero_mean(red_img, cytoplasm_mask)
  IN ("Unedited (Intensity)" :> unedited)
     @@ ("Background Removed (Intensity)" :> bg_mean)
     @@ ("Aggregates (Intensity)" :> agg_mean)
     @@ ("Red Aggregates (Intensity)" :> red_agg)
     @@ ("Red Cytoplasm (Intensity)" :> red_cyto)

measure_intensity(main_img, red_img, masks) ==
  LET bg == masks.bg
      agg == masks.agg
      unedited == _nonzero_mean(main_img, None)
      bg_mean == _nonzero_mean(main_img, bg)
      agg_mean == _nonzero_mean(main_img, agg)
      red_agg == _nonzero_mean(red_img, agg)
      cytoplasm_mask == logical_and(bg, Invert(agg))
      red_cyto == _nonzero_mean(red_img, cytoplasm_mask)
  IN ("Unedited (Intensity)" :> unedited)
     @@ ("Background Removed (Intensity)" :> bg_mean)
     @@ ("Aggregates (Intensity)" :> agg_mean)
     @@ ("Red Aggregates (Intensity)" :> red_agg)
     @@ ("Red Cytoplasm (Intensity)" :> red_cyto)

\* (a variant: the zero denominator is not caught)
partition_coefficient_unguarded(red_agg, red_cyto) ==
  IF red_cyto = NoneF \/ ~IsFinite(red_cyto)
  THEN NaN
  ELSE FDiv(red_agg, red_cyto)

partition_coefficient(red_agg, red_cyto) ==
  IF red_cyto = NoneF \/ ~IsFinite(red_cyto) \/ IsZero(red_cyto)
  THEN NaN
  ELSE FDiv(red_agg, red_cyto)

\* ------------------------------------------------------------------------
\* State: one run of cmd_quantify's loop body on one loaded file, and, for
\* the specifications of single functions, one call and its result.
\* ------------------------------------------------------------------------

VARIABLES
  stage,      \* where the loop body stands: "loaded", "masked", "measured", "done"
  main_img,   \* arr[..., main_channel]
  red_img,    \* arr[..., red_channel]
  s,          \* the Settings
  masks,      \* make_masks' result
  metrics,    \* measure_intensity's result
  pc,         \* partition_coefficient's result
  call,       \* a single function call: its name and arguments
  ret         \* and what it returned

vars == <<stage, main_img, red_img, s, masks, metrics, pc, call, ret>>

NoMasks == [bg |-> None, agg |-> None, lower |-> NoneF, upper |-> NoneF]
NoMetrics == [k \in {} |-> NoneF]
NoCall == [f |-> "none"]

\* ------------------------------------------------------------------------
\* Inputs
\* ------------------------------------------------------------------------

\* the decimal literal num/den as a float
Lit(num, den) == FDiv(FromInt(num), FromInt(den))

Images(shape, vals) ==
  {Arr(shape, d) : d \in [1..(shape[1] * shape[2]) -> vals]}
Full(shape, v) == Arr(shape, [i \in 1..(shape[1] * shape[2]) |-> v])
Reversed(a) == Arr(a.shape, [i \in 1..Size(a) |-> a.data[Size(a) + 1 - i]])

\* the smallest positive and the largest finite float
Tiny == Fin(1, EMin)
Huge == Fin(2^Prec - 1, EMax)

\* <<lower_k, upper_k>>: the test's, the defaults, and pairs in both orders
KPairs ==
  { <<Lit(1, 10), Lit(9, 10)>>, <<Lit(1, 4), Lit(1, 5)>>, <<Zero, FromInt(1)>>,
    <<Lit(1, 5), Lit(1, 4)>>, <<FromInt(-1), Zero>>, <<Lit(9, 10), Lit(1, 10)>>,
    <<Zero, Zero>> }

PixelValues == {FromInt(0), FromInt(10), FromInt(20), NaN}
\* values a few units apart, whose sums are rounded
CloseValues == {FromInt(21), FromInt(25), FromInt(26)}
ConstValues == {FromInt(0), FromInt(5), FromInt(7), FromInt(9), FromInt(10),
                Lit(1, 10), FromInt(-3), NaN, PInf, NInf}

\* <<main_img, red_img, Settings>> of the runs
\* thresholding alone: every small image, blur and dilation off
InputsPlain ==
  { <<a, r, Settings(k[1], k[2], Zero, 0)>> :
      a \in Images(<<2, 2>>, PixelValues), r \in {0, 1}, k \in KPairs }
InputsClose ==
  { <<a, r, Settings(k[1], k[2], Zero, 0)>> :
      a \in Images(<<2, 2>>, CloseValues), r \in {0}, k \in KPairs }
\* dilation settings of every kind on two-level images
InputsDilate ==
  { <<a, r, Settings(k[1], k[2], Zero, d)>> :
      a \in Images(<<3, 3>>, {FromInt(0), FromInt(10)}), r \in {0},
      k \in {<<Lit(1, 10), Lit(9, 10)>>, <<Lit(1, 4), Lit(1, 5)>>},
      d \in {0, 1, 2, 3, 4, 5} }
\* blur on (and a non-positive sigma, which leaves it off)
InputsBlur ==
  { <<a, r, Settings(k[1], k[2], b, d)>> :
      a \in Images(<<2, 2>>, {FromInt(0), FromInt(10)}), r \in {0},
      k \in {<<Lit(1, 10), Lit(9, 10)>>, <<Lit(1, 4), Lit(1, 5)>>},
      b \in {FromInt(1), FromInt(-1), NaN}, d \in {0, 3, -3} }
\* constant images
InputsConst ==
  { <<Full(<<2, 3>>, c), r, Settings(k[1], k[2], Zero, 0)>> :
      c \in ConstValues, r \in {0}, k \in KPairs \cup {<<PInf, PInf>>, <<Zero, PInf>>} }
\* the ends of the float range, in the pixels and in the factors
InputsExtreme ==
  { <<a, r, Settings(k[1], k[2], Zero, 0)>> :
      a \in Images(<<2, 2>>, {Zero, Tiny, Huge, FNeg(Huge)}), r \in {0},
      k \in {<<Zero, NInf>>, <<NInf, Zero>>, <<Zero, FromInt(1)>>, <<FromInt(1), Zero>>} }

Inputs ==
  InputsPlain \cup InputsClose \cup InputsDilate \cup InputsBlur \cup InputsConst
    \cup InputsExtreme

\* What gaussian_filter(img, sigma) may return: some array of the shape of
\* img (the filter is scipy's; nothing else about its output is relied on).
\* With the blur off the filter is not called.
Filtered(image, settings) ==
  IF blur_on(settings)
  THEN Images(image.shape, {FromInt(0), FromInt(10), FromInt(25)})
  ELSE {image}

\* ------------------------------------------------------------------------
\* cmd_quantify, for one file
\* ------------------------------------------------------------------------

Init ==
  /\ stage = "loaded"
  /\ \E in \in Inputs :
       /\ main_img = in[1]
       /\ red_img = IF in[2] = 0 THEN in[1] ELSE Reversed(in[1])
       /\ s = in[3]
  /\ masks = NoMasks
  /\ metrics = NoMetrics
  /\ pc = NoneF
  /\ call = NoCall
  /\ ret = NoneF

\* masks = make_masks(main_img, s)
MakeMasks ==
  /\ stage = "loaded"
  /\ \E filtered \in Filtered(main_img, s) :
       masks' = make_masks(main_img, s, filtered)
  /\ stage' = "masked"
  /\ UNCHANGED <<main_img, red_img, s, metrics, pc, call, ret>>

\* metrics = measure_intensity(main_img, red_img, masks)
MeasureIntensity ==
  /\ stage = "masked"
  /\ metrics' = measure_intensity(main_img, red_img, masks)
  /\ stage' = "measured"
  /\ UNCHANGED <<main_img, red_img, s, masks, pc, call, ret>>

\* pc = partition_coefficient(metrics["Red Aggregates (Intensity)"],
\*                            metrics["Red Cytoplasm (Intensity)"])
PartitionCoefficient ==
  /\ stage = "measured"
  /\ pc' = partition_coefficient(metrics["Red Aggregates (Intensity)"],
                                 metrics["Red Cytoplasm (Intensity)"])
  /\ stage' = "done"
  /\ UNCHANGED <<main_img, red_img, s, masks, metrics, call, ret>>

Next == MakeMasks \/ MeasureIntensity \/ PartitionCoefficient

Spec == Init /\ [][Next]_vars

\* ------------------------------------------------------------------------
\* Single functions, called once on arguments drawn from bounded sets
\* ------------------------------------------------------------------------

InitCall(calls) ==
  /\ stage = "call"
  /\ call \in calls
  /\ ret = NoneF
  /\ main_img = None
  /\ red_img = None
  /\ s = DefaultSettings
  /\ masks = NoMasks
  /\ metrics = NoMetrics
  /\ pc = NoneF

Return(f, value) ==
  /\ stage = "call"
  /\ call.f = f
  /\ ret' = value
  /\ stage' = "returned"
  /\ UNCHANGED <<main_img, red_img, s, masks, metrics, pc, call>>

\* partition_coefficient(red_agg, red_cyto)
PCValues ==
  {NaN, PInf, NInf, Zero, Tiny, FNeg(Tiny), Huge, FNeg(Huge), FromInt(1),
   FromInt(-1), FromInt(10), FromInt(3), Lit(1, 10), Lit(1, 4), FromInt(-7)}
PCCalls ==
  [f : {"partition_coefficient"}, red_agg : PCValues, red_cyto : PCValues \cup {NoneF}]
CallPartitionCoefficient ==
  Return("partition_coefficient", partition_coefficient(call.red_agg, call.red_cyto))
SpecPC == InitCall(PCCalls) /\ [][CallPartitionCoefficient]_vars

\* _nonzero_mean(values, mask)
MeanValues == {FromInt(1), FromInt(4), FromInt(10), NaN, PInf, NInf}
MeanCalls ==
  { [f |-> "_nonzero_mean", values |-> v, mask |-> m] :
      v \in Images(<<1, 3>>, MeanValues),
      m \in {None} \cup {Arr(<<1, 3>>, d) : d \in [1..3 -> BOOLEAN]} }
CallNonzeroMean ==
  Return("_nonzero_mean", _nonzero_mean(call.values, call.mask))
SpecMean == InitCall(MeanCalls) /\ [][CallNonzeroMean]_vars

\* compute_thresholds(image, lower_k, upper_k)
ThrValues == {Zero, FromInt(1), FromInt(10), Tiny, Huge, FNeg(Huge)}
ThrCalls ==
  { [f |-> "compute_thresholds", image |-> a, lower_k |-> k[1], upper_k |-> k[2]] :
      a \in Images(<<1, 4>>, ThrValues), k \in KPairs }
CallComputeThresholds ==
  Return("compute_thresholds",
         compute_thresholds(call.image, call.lower_k, call.upper_k))
SpecThr == InitCall(ThrCalls) /\ [][CallComputeThresholds]_vars

\* ------------------------------------------------------------------------
\* Properties
\* ------------------------------------------------------------------------

Returned(f) == stage = "returned" /\ call.f = f
Masked == stage \in {"masked", "measured", "done"}
\* make_masks has just returned
JustMasked == stage = "masked"
Measured == stage \in {"measured", "done"}
\* blur_sigma = 0 and dilate_size = 0, the disabling sentinels
PlainSettings == IsZero(s.blur_sigma) /\ s.dilate_size = 0

Pixels(a) == 1..Size(a)
AllFalse(mask) == \A i \in Pixels(mask) : ~mask.data[i]
SubsetMask(a, b) == \A i \in Pixels(a) : a.data[i] => b.data[i]
FiniteImage(a) == \A i \in Pixels(a) : IsFinite(a.data[i])

\* the integer a finite float with an integral value stands for
IsIntegral(a) == a.cls = "fin" /\ (a.e >= 0 \/ a.m % 2^(0 - a.e) = 0)
IntOf(a) == IF a.e >= 0 THEN a.m * 2^a.e ELSE a.m \div 2^(0 - a.e)

RECURSIVE SumOver(_, _)
\* the exact (integer) sum of the samples of a at the positions I
SumOver(a, I) ==
  IF I = {} THEN 0
  ELSE LET i == CHOOSE x \in I : TRUE
       IN IntOf(a.data[i]) + SumOver(a, I \ {i})

\* C1: partition_coefficient(a, b) is NaN whenever the denominator b is 0,
\* NaN, +Inf or -Inf, and it never raises; for every other (finite, non-zero)
\* b it is the float quotient a / b itself, with no clamping: dividing by 1
\* or -1 gives back a or -a, and a quotient beyond the largest float is Inf.
C1_PartitionCoefficient ==
  Returned("partition_coefficient") =>
    LET a == call.red_agg
        b == call.red_cyto
    IN /\ ret # Raised
       /\ (b \in {Zero, NaN, PInf, NInf} => ret = NaN)
       /\ (b.cls = "fin" /\ b.m # 0 =>
             /\ ret = FDiv(a, b)
             /\ (b = FromInt(1) => ret = a)
             /\ (b = FromInt(-1) => ret = FNeg(a))
             /\ (a = Huge /\ b = Tiny => ret = PInf)
             /\ (a = Huge /\ b = Lit(1, 4) => ret = PInf)
             /\ (a.cls = "fin" /\ a = b => ret = FromInt(1)))

C1_Witness ==
  /\ Returned("partition_coefficient")
  /\ call.red_agg = FromInt(10)
  /\ call.red_cyto = Lit(1, 4)
  /\ ret = FromInt(40)

\* C2: the region mean is the mean of exactly the samples that are selected
\* (all of them without a mask, those under the true positions with one) and
\* finite; when no such sample exists (an all-false mask, or only NaN/Inf
\* selected) the result is NaN: not an error, not 0.
C2_RegionMean ==
  Returned("_nonzero_mean") =>
    LET v == call.values
        sel == {i \in Pixels(v) :
                  (call.mask = None \/ call.mask.data[i]) /\ IsFinite(v.data[i])}
    IN /\ ret # Raised
       /\ (sel = {} => ret = NaN /\ ret # Zero)
       /\ (sel # {} => ret = FDivInt(FromInt(SumOver(v, sel)), Cardinality(sel)))

C2_Witness ==
  /\ Returned("_nonzero_mean")
  /\ call.mask # None
  /\ \E i, j, k \in Pixels(call.values) :
       /\ call.mask.data[i] /\ ~IsFinite(call.values.data[i])
       /\ call.mask.data[j] /\ call.values.data[j] = FromInt(10)
       /\ ~call.mask.data[k] /\ call.values.data[k] = FromInt(1)
  /\ ret = FromInt(10)

\* C3: with blur and dilation disabled, the masks have the shape of the
\* image; a pixel is in the background mask iff its value is strictly greater
\* than lower = mean + lower_k*std and in the aggregate mask iff it is
\* strictly greater than upper = mean + upper_k*std, std being the population
\* standard deviation (5 for an image half 0 and half 10); a pixel equal to a
\* threshold is excluded; the returned lower and upper are those thresholds.
C3_StrictThresholds ==
  (JustMasked /\ PlainSettings) =>
    LET d == main_img.data
        lower == FAdd(npMean(d), FMul(s.lower_k, npStd(d)))
        upper == FAdd(npMean(d), FMul(s.upper_k, npStd(d)))
    IN /\ masks.bg.shape = main_img.shape
       /\ masks.agg.shape = main_img.shape
       /\ Size(masks.bg) = Size(main_img)
       /\ Size(masks.agg) = Size(main_img)
       /\ masks.lower = lower
       /\ masks.upper = upper
       /\ \A i \in Pixels(main_img) :
            /\ masks.bg.data[i] <=> FGt(d[i], masks.lower)
            /\ masks.agg.data[i] <=> FGt(d[i], masks.upper)
            /\ (FEq(d[i], masks.lower) => ~masks.bg.data[i])
            /\ (FEq(d[i], masks.upper) => ~masks.agg.data[i])
       /\ ( /\ Size(main_img) = 4
            /\ Cardinality({i \in Pixels(main_img) : d[i] = FromInt(0)}) = 2
            /\ Cardinality({i \in Pixels(main_img) : d[i] = FromInt(10)}) = 2
            /\ s.lower_k = Zero /\ s.upper_k = FromInt(1)
            => masks.lower = FromInt(5) /\ masks.upper = FromInt(10) )

C3_Witness ==
  /\ Masked /\ PlainSettings
  /\ \E i, j \in Pixels(main_img) :
       /\ FEq(main_img.data[i], masks.upper)
       /\ masks.bg.data[i] /\ ~masks.agg.data[i]
       /\ FLt(main_img.data[j], masks.lower) /\ ~masks.bg.data[j]

\* the keys of the metric set
Unedited == "Unedited (Intensity)"
BackgroundRemoved == "Background Removed (Intensity)"
Aggregates == "Aggregates (Intensity)"
RedAggregates == "Red Aggregates (Intensity)"
RedCytoplasm == "Red Cytoplasm (Intensity)"

\* every pixel of the image has the value c
Constant(a, c) == \A i \in Pixels(a) : a.data[i] = c
\* every pixel is an integer, and the sum of their magnitudes is below
\* 2^Prec: every partial sum of pixels is then a float, whatever the order
ExactlySummable(a) ==
  /\ \A i \in Pixels(a) : IsIntegral(a.data[i])
  /\ SumOver([shape |-> a.shape,
              data |-> [i \in Pixels(a) |-> FromInt(Abs(IntOf(a.data[i])))]],
             Pixels(a)) < 2^Prec
\* the cytoplasm region of measure_intensity: background and not aggregate
Cytoplasm == {i \in Pixels(masks.bg) : masks.bg.data[i] /\ ~masks.agg.data[i]}

\* C4 (as amended): for a constant image of an exactly summable finite value
\* c, used as both channels, and finite lower_k and upper_k, with blur and
\* dilation off: lower = upper = c, both masks are all-false, the four region
\* means (Background Removed, Aggregates, Red Aggregates, Red Cytoplasm) are
\* NaN, and Unedited, the mean of the whole image, is c.
C4_ConstantImage ==
  LET c == main_img.data[1] IN
    ( /\ Measured /\ PlainSettings
      /\ Constant(main_img, c) /\ red_img = main_img
      /\ ExactlySummable(main_img)
      /\ IsFinite(s.lower_k) /\ IsFinite(s.upper_k) )
    => /\ masks.lower = c /\ masks.upper = c
       /\ AllFalse(masks.bg) /\ AllFalse(masks.agg)
       /\ metrics[BackgroundRemoved] = NaN
       /\ metrics[Aggregates] = NaN
       /\ metrics[RedAggregates] = NaN
       /\ metrics[RedCytoplasm] = NaN
       /\ metrics[Unedited] = c

C4_Witness ==
  /\ Measured /\ PlainSettings
  /\ Constant(main_img, FromInt(5)) /\ red_img = main_img
  /\ s.lower_k = Lit(1, 10) /\ s.upper_k = Lit(9, 10)
  /\ masks.lower = FromInt(5) /\ AllFalse(masks.bg)
  /\ metrics[Aggregates] = NaN /\ metrics[Unedited] = FromInt(5)

\* C4 as claimed: for every constant image (all pixels c) used as both
\* channels and any lower_k and upper_k, with blur and dilation off:
\* lower = upper = c, both masks are all-false, and all five means, Unedited
\* included, are NaN.
C4_AsClaimed ==
  LET c == main_img.data[1] IN
    (Measured /\ PlainSettings /\ Constant(main_img, c) /\ red_img = main_img)
    => /\ masks.lower = c /\ masks.upper = c
       /\ AllFalse(masks.bg) /\ AllFalse(masks.agg)
       /\ \A key \in {Unedited, BackgroundRemoved, Aggregates, RedAggregates,
                      RedCytoplasm} : metrics[key] = NaN

\* the thresholded masks of the unblurred image, before any dilation
OverLower(i) == FGt(main_img.data[i], masks.lower)
OverUpper(i) == FGt(main_img.data[i], masks.upper)
\* pixel j lies in the d-by-d window centred on pixel i (rows and columns
\* counted from 0, C order)
InWindow(i, j, d) ==
  LET cols == main_img.shape[2]
      h == (d - 1) \div 2
  IN /\ Abs(((i - 1) \div cols) - ((j - 1) \div cols)) <= h
     /\ Abs(((i - 1) % cols) - ((j - 1) % cols)) <= h
\* the number of pixels of the 3-by-3 block around pixel j that lie inside
\* the image
ClippedBlock(j) ==
  LET rows == main_img.shape[1]
      cols == main_img.shape[2]
      r == (j - 1) \div cols
      c == (j - 1) % cols
  IN (MinI(r + 1, rows - 1) - MaxI(r - 1, 0) + 1)
       * (MinI(c + 1, cols - 1) - MaxI(c - 1, 0) + 1)

\* C5: make_masks dilates iff dilate_size is odd and >= 3.  (Blur off.)  For
\* an even dilate_size or one below 3 the masks are those of dilate_size = 0,
\* the thresholded masks, and nothing is raised.  For an odd d >= 3 each mask
\* is, independently, the dilation of its thresholded mask by a d-by-d
\* square: a pixel is true iff some pixel of the d-by-d window centred on it
\* was true; with d = 3 a single true pixel becomes the 3x3 block around it,
\* clipped at the image boundary.
C5_DilationToggle ==
  (JustMasked /\ ~blur_on(s)) =>
    LET d == s.dilate_size
        P == Pixels(main_img)
        undilated == make_masks(main_img, [s EXCEPT !.dilate_size = 0], main_img)
    IN /\ (d % 2 = 0 \/ d < 3) =>
            /\ masks = undilated
            /\ \A i \in P : /\ masks.bg.data[i] <=> OverLower(i)
                            /\ masks.agg.data[i] <=> OverUpper(i)
       /\ (d % 2 = 1 /\ d >= 3) =>
            /\ masks.lower = undilated.lower /\ masks.upper = undilated.upper
            /\ \A i \in P :
                 /\ masks.bg.data[i] <=> \E j \in P : OverLower(j) /\ InWindow(i, j, d)
                 /\ masks.agg.data[i] <=> \E j \in P : OverUpper(j) /\ InWindow(i, j, d)
            /\ \A j \in P :
                 (d = 3 /\ {i \in P : OverLower(i)} = {j}) =>
                   /\ Cardinality({i \in P : masks.bg.data[i]}) = ClippedBlock(j)
                   /\ \A i \in P : masks.bg.data[i] <=> InWindow(i, j, 3)

\* an isolated true pixel in a corner, dilated by 3 into a 2x2 block, while
\* the aggregate mask, empty before, stays empty
C5_Witness ==
  /\ Masked /\ ~blur_on(s) /\ s.dilate_size = 3
  /\ main_img.shape = <<3, 3>>
  /\ {i \in Pixels(main_img) : OverLower(i)} = {9}
  /\ {i \in Pixels(main_img) : masks.bg.data[i]} = {5, 6, 8, 9}
  /\ {i \in Pixels(main_img) : OverUpper(i)} = {9}
  /\ {i \in Pixels(main_img) : masks.agg.data[i]} = {5, 6, 8, 9}

\* the image has exactly the two values lo and hi, each on some pixel
TwoLevel(a, lo, hi) ==
  /\ \A i \in Pixels(a) : a.data[i] \in {lo, hi}
  /\ \E i \in Pixels(a) : a.data[i] = lo
  /\ \E i \in Pixels(a) : a.data[i] = hi
\* where the image has the value v
Where(a, v) == {i \in Pixels(a) : a.data[i] = v}
TrueAt(mask) == {i \in Pixels(mask) : mask.data[i]}

\* C6: end to end on a two-level image, half the pixels 0 and half 10, the
\* same image as both channels, with Settings(0.1, 0.9, 0, 0): lower = 5.5
\* and upper = 9.5; the background and the aggregate mask are both true
\* exactly on the pixels valued 10; the cytoplasm region is empty; Red
\* Cytoplasm is NaN and the partition coefficient is NaN.  The same holds of
\* any two-level image, blur and dilation off, whenever both thresholds lie
\* strictly between the two levels.
C6_TwoLevelEndToEnd ==
  (stage = "done" /\ PlainSettings) =>
    /\ ( /\ TwoLevel(main_img, FromInt(0), FromInt(10))
         /\ Cardinality(Where(main_img, FromInt(0)))
              = Cardinality(Where(main_img, FromInt(10)))
         /\ red_img = main_img
         /\ s.lower_k = Lit(1, 10) /\ s.upper_k = Lit(9, 10) )
       => /\ masks.lower = Dyadic(11, 1)
          /\ masks.upper = Dyadic(19, 1)
          /\ TrueAt(masks.bg) = Where(main_img, FromInt(10))
          /\ TrueAt(masks.agg) = Where(main_img, FromInt(10))
          /\ Cytoplasm = {}
          /\ metrics[RedAggregates] = FromInt(10)
          /\ metrics[RedCytoplasm] = NaN
          /\ pc = NaN
    /\ \A lo, hi \in PixelValues \cup CloseValues :
         ( /\ TwoLevel(main_img, lo, hi)
           /\ FLt(lo, masks.lower) /\ FLt(masks.lower, hi)
           /\ FLt(lo, masks.upper) /\ FLt(masks.upper, hi) )
         => /\ TrueAt(masks.bg) = Where(main_img, hi)
            /\ TrueAt(masks.agg) = Where(main_img, hi)
            /\ Cytoplasm = {}
            /\ metrics[RedCytoplasm] = NaN
            /\ pc = NaN

C6_Witness ==
  /\ stage = "done" /\ PlainSettings
  /\ main_img.data = <<FromInt(0), FromInt(0), FromInt(10), FromInt(10)>>
  /\ red_img = main_img
  /\ s.lower_k = Lit(1, 10) /\ s.upper_k = Lit(9, 10)
  /\ masks.lower = Dyadic(11, 1) /\ masks.upper = Dyadic(19, 1)
  /\ masks.bg.data = <<FALSE, FALSE, TRUE, TRUE>>
  /\ masks.agg.data = <<FALSE, FALSE, TRUE, TRUE>>
  /\ metrics[RedCytoplasm] = NaN /\ pc = NaN

\* C7 (as amended): for every image of exactly summable integer pixels and
\* every Settings with upper_k >= lower_k, blur and dilation off, for which
\* the aggregate mask is non-empty, Aggregates (Intensity) >= Background
\* Removed (Intensity).
C7_AggregatesBrighter ==
  ( /\ Measured /\ PlainSettings
    /\ ExactlySummable(main_img)
    /\ FGe(s.upper_k, s.lower_k)
    /\ TrueAt(masks.agg) # {} )
  => FGe(metrics[Aggregates], metrics[BackgroundRemoved])

C7_Witness ==
  /\ Measured /\ PlainSettings
  /\ ExactlySummable(main_img)
  /\ FGt(s.upper_k, s.lower_k)
  /\ TrueAt(masks.agg) # {}
  /\ TrueAt(masks.agg) # TrueAt(masks.bg)
  /\ FGt(metrics[Aggregates], metrics[BackgroundRemoved])

\* C7 as claimed: for every finite image and every Settings with
\* upper_k >= lower_k, blur and dilation off, for which the aggregate mask is
\* non-empty, Aggregates (Intensity) >= Background Removed (Intensity).
C7_AsClaimed ==
  ( /\ Measured /\ PlainSettings
    /\ FiniteImage(main_img)
    /\ FGe(s.upper_k, s.lower_k)
    /\ TrueAt(masks.agg) # {} )
  => FGe(metrics[Aggregates], metrics[BackgroundRemoved])

\* C8 (as amended): for a finite image whose mean and standard deviation
\* are finite (nothing overflows) and finite lower_k <= upper_k,
\* compute_thresholds returns lower <= upper.  upper > lower does not follow
\* from lower_k < upper_k and two distinct pixel values; it holds for
\* lower_k = 0.0, upper_k = 1.0 on the bimodal image with as many pixels 0 as
\* pixels 10, where lower = 5 and upper = 10.
C8_ThresholdMonotone ==
  Returned("compute_thresholds") =>
    LET a == call.image
    IN /\ ( /\ FiniteImage(a)
            /\ IsFinite(npMean(a.data)) /\ IsFinite(npStd(a.data))
            /\ IsFinite(call.lower_k) /\ IsFinite(call.upper_k)
            /\ FLe(call.lower_k, call.upper_k) )
          => FLe(ret[1], ret[2])
       /\ ( /\ TwoLevel(a, FromInt(0), FromInt(10))
            /\ Cardinality(Where(a, FromInt(0))) = Cardinality(Where(a, FromInt(10)))
            /\ call.lower_k = Zero /\ call.upper_k = FromInt(1) )
          => /\ ret = <<FromInt(5), FromInt(10)>>
             /\ FGt(ret[2], ret[1])

C8_Witness ==
  /\ Returned("compute_thresholds")
  /\ call.image.data = <<FromInt(0), FromInt(10), FromInt(0), FromInt(10)>>
  /\ call.lower_k = Zero /\ call.upper_k = FromInt(1)
  /\ ret = <<FromInt(5), FromInt(10)>>

\* C8 as claimed: for any finite image and lower_k <= upper_k the returned
\* pair has lower <= upper, and upper > lower when lower_k < upper_k and the
\* image has at least two distinct pixel values.
C8_AsClaimed ==
  (Returned("compute_thresholds") /\ FiniteImage(call.image)) =>
    /\ FLe(call.lower_k, call.upper_k) => FLe(ret[1], ret[2])
    /\ ( /\ FLt(call.lower_k, call.upper_k)
         /\ \E i, j \in Pixels(call.image) : call.image.data[i] # call.image.data[j] )
       => FGt(ret[2], ret[1])

\* C9 (as amended): it is upper_k >= lower_k (lower_k finite) that makes the
\* aggregate mask a subset of the background mask: for every image and every
\* such Settings, blur and dilation on or off, every pixel true in the
\* aggregate mask returned by make_masks is true in the background mask.
C9_AggregateInBackground ==
  (JustMasked /\ FGe(s.upper_k, s.lower_k) /\ IsFinite(s.lower_k))
  => SubsetMask(masks.agg, masks.bg)

C9_Witness ==
  /\ JustMasked
  /\ FGt(s.upper_k, s.lower_k)
  /\ TrueAt(masks.agg) # {}
  /\ TrueAt(masks.agg) # TrueAt(masks.bg)
  /\ SubsetMask(masks.agg, masks.bg)

\* C9 as claimed: for every image and every Settings with
\* upper_k <= lower_k, every pixel true in the aggregate mask is true in the
\* background mask.
C9_AsClaimed ==
  (JustMasked /\ FLe(s.upper_k, s.lower_k))
  => SubsetMask(masks.agg, masks.bg)

\* C10 (as amended): for every image and every Settings with
\* upper_k <= lower_k and upper_k finite (the defaults 0.25 and 0.20 among
\* them), with or without blur, with or without dilation: the background mask
\* is a subset of the aggregate mask, the cytoplasm region (background and
\* not aggregate) is empty, Red Cytoplasm (Intensity) is NaN, and the
\* partition coefficient of the metrics is NaN.
C10_EmptyCytoplasm ==
  (Masked /\ FLe(s.upper_k, s.lower_k) /\ IsFinite(s.upper_k)) =>
    /\ SubsetMask(masks.bg, masks.agg)
    /\ Cytoplasm = {}
    /\ (Measured => metrics[RedCytoplasm] = NaN)
    /\ (stage = "done" => pc = NaN)

C10_Witness ==
  /\ stage = "done"
  /\ s.lower_k = DefaultSettings.lower_k /\ s.upper_k = DefaultSettings.upper_k
  /\ dilate_on(s)
  /\ TrueAt(masks.bg) # {}
  /\ metrics[RedAggregates] = FromInt(10)
  /\ metrics[RedCytoplasm] = NaN
  /\ pc = NaN

\* C10 as claimed: for every image and every Settings with
\* upper_k <= lower_k, with or without blur and dilation: the background mask
\* is a subset of the aggregate mask, the cytoplasm region is empty, Red
\* Cytoplasm (Intensity) is NaN, and the partition coefficient is NaN.
C10_AsClaimed ==
  (Masked /\ FLe(s.upper_k, s.lower_k)) =>
    /\ SubsetMask(masks.bg, masks.agg)
    /\ Cytoplasm = {}
    /\ (Measured => metrics[RedCytoplasm] = NaN)
    /\ (stage = "done" => pc = NaN)

====
